---- MODULE Spec2Model ----
(***************************************************************************)
(* Bracket-pair AST of crates/language/src/ast.rs.                         *)
(*                                                                         *)
(* Nodes live in an arena (a sequence of AstNode values); an address is an *)
(* index into it.  A List owns its children (Vec<Box<AstNode>>): every     *)
(* child address belongs to exactly one List.  A Pair borrows its interior *)
(* (Option<&'a AstNode>): the address may be held by any number of Pairs.  *)
(* Option<T> is a sequence of length at most one.                          *)
(***************************************************************************)
EXTENDS Integers, Sequences, FiniteSets, TLC

VARIABLES arena, text, call

vars == <<arena, text, call>>

(* ------------------------------ bounds --------------------------------- *)

MaxNodes == 3
MaxLen == 1
MaxHeight == 1
MaxId == 2
MaxIdsLen == 2
MaxTextLen == 3

\* Stands for usize::MAX (2^64 - 1), the "no constraint" sentinel: above every
\* column of a bounded document, and only ever compared, never added to.
UsizeMax == 2147483647

(* ------------------------------ values --------------------------------- *)

None == <<>>

Some(x) == <<x>>

Range(s) == {s[i] : i \in 1..Len(s)}

SeqsUpTo(S, n) == UNION {[1..k -> S] : k \in 0..n}

BracketAstNode(len, ty) ==
    [length |-> len, bracket_type |-> ty, position |-> 0, metadata |-> None]

InvalidBracketAstNode(len, ty) ==
    [length |-> len, bracket_type |-> ty, position |-> 0,
     expected_bracket_type |-> None, metadata |-> None]

TextAstNode(len, txt) == [length |-> len, text |-> txt]

PairAstNode(len, open, child, close, ids) ==
    [length |-> len, opening_bracket |-> open, child |-> child,
     closing_bracket |-> close, missing_opening_bracket_ids |-> ids]

ListAstNode(len, height, ids, children) ==
    [length |-> len, list_height |-> height,
     missing_opening_bracket_ids |-> ids, children |-> children]

AstNode(tag, node) == [tag |-> tag, node |-> node]

(* ---------------------------- PairAstNode ------------------------------ *)

Pair_children_length(node) == 3

\* Pair_get_child with slots 1 and 2 exchanged.
Pair_get_child_swapped(ar, node, idx) ==
    CASE idx = 0 -> Some(AstNode("Bracket", node.opening_bracket))
      [] idx = 2 -> IF node.child = None THEN None ELSE Some(ar[node.child[1]])
      [] idx = 1 -> IF node.closing_bracket = None THEN None
                    ELSE Some(AstNode("Bracket", node.closing_bracket[1]))
      [] OTHER -> None

Pair_get_child(ar, node, idx) ==
    CASE idx = 0 -> Some(AstNode("Bracket", node.opening_bracket))
      [] idx = 1 -> IF node.child = None THEN None ELSE Some(ar[node.child[1]])
      [] idx = 2 -> IF node.closing_bracket = None THEN None
                    ELSE Some(AstNode("Bracket", node.closing_bracket[1]))
      [] OTHER -> None

\* Pair_children without the push of the closing bracket.
Pair_children_no_closing(ar, node) ==
    LET r1 == <<AstNode("Bracket", node.opening_bracket)>>
    IN IF node.child # None THEN Append(r1, ar[node.child[1]]) ELSE r1

Pair_children(ar, node) ==
    LET r1 == <<AstNode("Bracket", node.opening_bracket)>>
        r2 == IF node.child # None THEN Append(r1, ar[node.child[1]]) ELSE r1
        r3 == IF node.closing_bracket # None
              THEN Append(r2, AstNode("Bracket", node.closing_bracket[1]))
              ELSE r2
    IN r3

Pair_deep_clone(node) ==
    PairAstNode(node.length, node.opening_bracket, node.child,
                node.closing_bracket, node.missing_opening_bracket_ids)

\* Pair_can_be_reused with .any in place of .all.
Pair_can_be_reused_any(node, open_bracket_ids) ==
    \E i \in 1..Len(node.missing_opening_bracket_ids) :
        \E j \in 1..Len(open_bracket_ids) :
            open_bracket_ids[j] = node.missing_opening_bracket_ids[i]

Pair_can_be_reused(node, open_bracket_ids) ==
    \A i \in 1..Len(node.missing_opening_bracket_ids) :
        \E j \in 1..Len(open_bracket_ids) :
            open_bracket_ids[j] = node.missing_opening_bracket_ids[i]

Pair_list_height(node) == 0

(* ---------------------------- ListAstNode ------------------------------ *)

List_children_length(node) == Len(node.children)

List_get_child(ar, node, idx) ==
    IF idx < Len(node.children) THEN Some(ar[node.children[idx + 1]]) ELSE None

List_children(ar, node) ==
    [i \in 1..Len(node.children) |-> ar[node.children[i]]]

List_can_be_reused(node, open_bracket_ids) ==
    \A i \in 1..Len(node.missing_opening_bracket_ids) :
        \E j \in 1..Len(open_bracket_ids) :
            open_bracket_ids[j] = node.missing_opening_bracket_ids[i]

List_list_height(node) == node.list_height

(* ------------------------------ AstNode -------------------------------- *)

kind(n) ==
    CASE n.tag = "Pair" -> "Pair"
      [] n.tag = "List" -> "List"
      [] n.tag = "Bracket" -> "Bracket"
      [] n.tag = "InvalidBracket" -> "UnexpectedClosingBracket"
      [] n.tag = "Text" -> "Text"

children_length(n) ==
    CASE n.tag = "Pair" -> Pair_children_length(n.node)
      [] n.tag = "List" -> List_children_length(n.node)
      [] OTHER -> 0

get_child(ar, n, idx) ==
    CASE n.tag = "Pair" -> Pair_get_child(ar, n.node, idx)
      [] n.tag = "List" -> List_get_child(ar, n.node, idx)
      [] OTHER -> None

children(ar, n) ==
    CASE n.tag = "Pair" -> Pair_children(ar, n.node)
      [] n.tag = "List" -> List_children(ar, n.node)
      [] OTHER -> <<>>

missing_opening_bracket_ids(n) ==
    CASE n.tag = "Pair" -> n.node.missing_opening_bracket_ids
      [] n.tag = "List" -> n.node.missing_opening_bracket_ids
      [] OTHER -> <<>>

\* list_height with the List arm missing, so that a List takes the default.
list_height_pair_only(n) ==
    CASE n.tag = "Pair" -> Pair_list_height(n.node)
      [] OTHER -> 0

list_height(n) ==
    CASE n.tag = "Pair" -> Pair_list_height(n.node)
      [] n.tag = "List" -> List_list_height(n.node)
      [] OTHER -> 0

length(n) ==
    CASE n.tag = "Pair" -> n.node.length
      [] n.tag = "List" -> n.node.length
      [] n.tag = "Bracket" -> n.node.length
      [] n.tag = "Text" -> n.node.length
      [] OTHER -> 0

\* can_be_reused deciding a leaf by its (empty) id vector like a composite.
can_be_reused_by_ids(n, open_bracket_ids) ==
    \A i \in 1..Len(missing_opening_bracket_ids(n)) :
        \E j \in 1..Len(open_bracket_ids) :
            open_bracket_ids[j] = missing_opening_bracket_ids(n)[i]

can_be_reused(n, open_bracket_ids) ==
    CASE n.tag = "Pair" -> Pair_can_be_reused(n.node, open_bracket_ids)
      [] n.tag = "List" -> List_can_be_reused(n.node, open_bracket_ids)
      [] OTHER -> FALSE


RECURSIVE deep_clone(_, _), deep_clone_children(_, _)

\* self.children.iter().map(|child| Box::new(child.deep_clone())).collect():
\* every child is cloned into a fresh box, left to right.
deep_clone_children(ar, cs) ==
    IF cs = <<>> THEN [arena |-> ar, addrs |-> <<>>]
    ELSE LET h == deep_clone(ar, Head(cs))
             t == deep_clone_children(h.arena, Tail(cs))
         IN [arena |-> t.arena, addrs |-> <<h.addr>> \o t.addrs]

List_deep_clone(ar, node) ==
    LET cs == deep_clone_children(ar, node.children)
    IN [arena |-> cs.arena,
        node |-> ListAstNode(node.length, node.list_height,
                             node.missing_opening_bracket_ids, cs.addrs)]

\* The clone of the node at address a is stored at a fresh address; the
\* result is the grown arena and that address.
deep_clone(ar, a) ==
    LET n == ar[a] IN
    CASE n.tag = "Pair" ->
            [arena |-> Append(ar, AstNode("Pair", Pair_deep_clone(n.node))),
             addr |-> Len(ar) + 1]
      [] n.tag = "List" ->
            LET r == List_deep_clone(ar, n.node)
            IN [arena |-> Append(r.arena, AstNode("List", r.node)),
                addr |-> Len(r.arena) + 1]
      [] OTHER -> [arena |-> Append(ar, n), addr |-> Len(ar) + 1]

(* ----------------------------- TextModel ------------------------------- *)

\* A document is a sequence of one-character strings; offsets count from 0.
get_text_range(text_model, start, end) == SubSeq(text_model, start + 1, end)

is_whitespace(c) == c \in {" ", "\n"}

RECURSIVE split_newline(_)

split_newline(s) ==
    IF \A i \in 1..Len(s) : s[i] # "\n" THEN <<s>>
    ELSE LET k == CHOOSE i \in 1..Len(s) :
                      s[i] = "\n" /\ \A j \in 1..(i - 1) : s[j] # "\n"
         IN <<SubSeq(s, 1, k - 1)>> \o split_newline(SubSeq(s, k + 1, Len(s)))

\* str::lines(): split at "\n"; a final line ending yields no extra empty line.
lines(s) ==
    LET p == split_newline(s)
    IN IF p[Len(p)] = <<>> THEN SubSeq(p, 1, Len(p) - 1) ELSE p

\* first_non_whitespace with unwrap_or(0): a blank line counts as column 0.
first_non_whitespace_or_zero(line) ==
    IF \A i \in 1..Len(line) : is_whitespace(line[i]) THEN 0
    ELSE (CHOOSE i \in 1..Len(line) :
              /\ ~is_whitespace(line[i])
              /\ \A j \in 1..(i - 1) : is_whitespace(line[j])) - 1

\* line.chars().position(|c| !c.is_whitespace()).unwrap_or(usize::MAX)
first_non_whitespace(line) ==
    IF \A i \in 1..Len(line) : is_whitespace(line[i]) THEN UsizeMax
    ELSE (CHOOSE i \in 1..Len(line) :
              /\ ~is_whitespace(line[i])
              /\ \A j \in 1..(i - 1) : is_whitespace(line[j])) - 1

\* Iterator::min().unwrap_or(usize::MAX)
min_or_max(xs) ==
    IF xs = <<>> THEN UsizeMax
    ELSE CHOOSE m \in Range(xs) : \A x \in Range(xs) : m <= x

List_compute_min_indentation(node, offset, text_model) ==
    LET t == get_text_range(text_model, offset, offset + node.length)
        ls == lines(t)
    IN min_or_max([i \in 1..Len(ls) |-> first_non_whitespace(ls[i])])

RECURSIVE compute_min_indentation(_, _, _, _)

Pair_compute_min_indentation(ar, node, offset, text_model) ==
    IF node.child # None
    THEN compute_min_indentation(ar, ar[node.child[1]],
                                 offset + node.opening_bracket.length, text_model)
    ELSE UsizeMax

compute_min_indentation(ar, n, offset, text_model) ==
    CASE n.tag = "Pair" -> Pair_compute_min_indentation(ar, n.node, offset, text_model)
      [] n.tag = "List" -> List_compute_min_indentation(n.node, offset, text_model)
      [] OTHER -> UsizeMax


(* ------------------- building and querying a tree ---------------------- *)

\* call records the last operation applied to the tree: its name, the
\* address of the receiver, the argument and the value returned.
NoCall == [op |-> "none", node |-> 0, arg |-> <<>>, result |-> <<>>]

Addrs == DOMAIN arena

\* The node built last: the root of the tree a bottom-up builder hands out.
Root == {a \in Addrs : a = Len(arena)}

\* Addresses already owned by a List's Vec<Box<AstNode>>.
Owned ==
    UNION {Range(arena[a].node.children) : a \in {b \in Addrs : arena[b].tag = "List"}}

Sum(f) ==
    LET RECURSIVE S(_)
        S(i) == IF i = 0 THEN 0 ELSE f[i] + S(i - 1)
    IN S(Len(f))

\* The length a builder obtains by adding up the parts it is about to store.
PairPartsLength(ar, open, child, close) ==
    open.length
        + (IF child = None THEN 0 ELSE length(ar[child[1]]))
        + (IF close = None THEN 0 ELSE close[1].length)

ListPartsLength(ar, cs) == Sum([i \in 1..Len(cs) |-> length(ar[cs[i]])])

\* Nodes are built first and queried afterwards; a node is never changed.
Building == call.op \in {"none", "deep_clone"}

Init ==
    /\ arena = <<>>
    /\ text = <<>>
    /\ call = NoCall

\* AstNode::Bracket / InvalidBracket / Text built from raw fields.
NewLeaf(lens) ==
    /\ Building
    /\ Len(arena) < MaxNodes
    /\ \E tag \in {"Bracket", "InvalidBracket", "Text"}, len \in lens :
          LET node == CASE tag = "Bracket" -> BracketAstNode(len, "(")
                        [] tag = "InvalidBracket" -> InvalidBracketAstNode(len, ")")
                        [] tag = "Text" -> TextAstNode(len, [i \in 1..len |-> "a"])
          IN arena' = Append(arena, AstNode(tag, node))
    /\ call' = NoCall
    /\ UNCHANGED text

\* PairAstNode { length, opening_bracket, child, closing_bracket, ids }: every
\* field is pub and stored as given.  The length is the sum of the parts or
\* any value of lens.
NewPair(lens) ==
    /\ Building
    /\ Len(arena) < MaxNodes
    /\ \E child \in {None} \cup {Some(a) : a \in Addrs},
          close \in {None, Some(BracketAstNode(1, ")"))} :
          LET open == BracketAstNode(1, "(") IN
          \E len \in lens \cup {PairPartsLength(arena, open, child, close)} :
              arena' = Append(arena,
                  AstNode("Pair", PairAstNode(len, open, child, close, <<>>)))
    /\ call' = NoCall
    /\ UNCHANGED text

\* ListAstNode { length, list_height, ids, children }: the children are
\* moved into the list's boxes, so none of them is owned by another list.
NewList(lens, heights) ==
    /\ Building
    /\ Len(arena) < MaxNodes
    /\ \E cs \in SeqsUpTo(Addrs \ Owned, Len(arena)), height \in heights :
          /\ \A i, j \in 1..Len(cs) : i # j => cs[i] # cs[j]
          /\ \E len \in lens \cup {ListPartsLength(arena, cs)} :
                arena' = Append(arena,
                    AstNode("List", ListAstNode(len, height, <<>>, cs)))
    /\ call' = NoCall
    /\ UNCHANGED text

DeepClone ==
    /\ Building
    /\ Len(arena) <= MaxNodes
    /\ \E a \in Addrs :
          LET r == deep_clone(arena, a) IN
          /\ arena' = r.arena
          /\ call' = [op |-> "deep_clone", node |-> a, arg |-> <<>>, result |-> r.addr]
    /\ UNCHANGED text

CallKind ==
    /\ \E a \in Root :
          call' = [op |-> "kind", node |-> a, arg |-> <<>>, result |-> kind(arena[a])]
    /\ UNCHANGED <<arena, text>>

CallLength ==
    /\ \E a \in Root :
          call' = [op |-> "length", node |-> a, arg |-> <<>>,
                   result |-> length(arena[a])]
    /\ UNCHANGED <<arena, text>>

CallListHeight ==
    /\ \E a \in Root :
          call' = [op |-> "list_height", node |-> a, arg |-> <<>>,
                   result |-> list_height(arena[a])]
    /\ UNCHANGED <<arena, text>>

CallChildrenLength ==
    /\ \E a \in Root :
          call' = [op |-> "children_length", node |-> a, arg |-> <<>>,
                   result |-> children_length(arena[a])]
    /\ UNCHANGED <<arena, text>>

CallGetChild ==
    /\ \E a \in Root, idx \in 0..(MaxNodes + 1) :
          call' = [op |-> "get_child", node |-> a, arg |-> idx,
                   result |-> get_child(arena, arena[a], idx)]
    /\ UNCHANGED <<arena, text>>

CallChildren ==
    /\ \E a \in Root :
          call' = [op |-> "children", node |-> a, arg |-> <<>>,
                   result |-> children(arena, arena[a])]
    /\ UNCHANGED <<arena, text>>

\* Trees whose length fields are whatever the caller stored.
Next ==
    \/ NewLeaf(0..MaxLen)
    \/ NewPair(0..MaxLen)
    \/ NewList(0..MaxLen, 0..MaxHeight)
    \/ DeepClone
    \/ CallKind
    \/ CallLength
    \/ CallListHeight

Spec == Init /\ [][Next]_vars

\* Trees of unit leaves whose composite lengths are the sums of their parts.
NextShape ==
    \/ NewLeaf({1})
    \/ NewPair({})
    \/ NewList({}, 0..MaxHeight)
    \/ CallListHeight
    \/ CallChildrenLength
    \/ CallGetChild
    \/ CallChildren

SpecShape == Init /\ [][NextShape]_vars


(* --------------------------- reuse predicate --------------------------- *)

IdSeqs == SeqsUpTo(1..MaxId, MaxIdsLen)

\* One composite or leaf node, alone or over one Text child, whose
\* missing_opening_bracket_ids is any short vector of ids.
ReuseArenas ==
    {<<AstNode("Bracket", BracketAstNode(1, "("))>>,
     <<AstNode("InvalidBracket", InvalidBracketAstNode(1, ")"))>>,
     <<AstNode("Text", TextAstNode(1, <<"a">>))>>}
    \cup {<<AstNode("Pair", PairAstNode(1, BracketAstNode(1, "("), None, None, ids))>> :
            ids \in IdSeqs}
    \cup {<<AstNode("List", ListAstNode(0, 0, ids, <<>>))>> : ids \in IdSeqs}
    \cup {<<AstNode("Text", TextAstNode(1, <<"a">>)),
            AstNode("Pair", PairAstNode(3, BracketAstNode(1, "("), Some(1),
                                        Some(BracketAstNode(1, ")")), ids))>> :
            ids \in IdSeqs}
    \cup {<<AstNode("Text", TextAstNode(1, <<"a">>)),
            AstNode("List", ListAstNode(1, 0, ids, <<1>>))>> : ids \in IdSeqs}

InitReuse ==
    /\ arena \in ReuseArenas
    /\ text = <<>>
    /\ call = NoCall

CallCanBeReused ==
    /\ \E a \in Root, open_bracket_ids \in IdSeqs :
          call' = [op |-> "can_be_reused", node |-> a, arg |-> open_bracket_ids,
                   result |-> can_be_reused(arena[a], open_bracket_ids)]
    /\ UNCHANGED <<arena, text>>

NextReuse == CallCanBeReused

SpecReuse == InitReuse /\ [][NextReuse]_vars

(* ------------------------- indentation queries ------------------------- *)

ExampleText == <<" ", " ", "a", "\n", " ", "b", "\n", " ", " ", " ", "c">>

Texts == SeqsUpTo({" ", "a", "\n", "(", ")"}, MaxTextLen) \cup {ExampleText}

IsBracketChar(c) == c \in {"(", ")"}

\* The Text leaves a parser can cut out of document t: the non-empty runs
\* of t without a bracket character.
TextNodes(t) ==
    {AstNode("Text", TextAstNode(j - i + 1, SubSeq(t, i, j))) :
        <<i, j>> \in {ij \in (1..Len(t)) \X (1..Len(t)) :
                        /\ ij[1] <= ij[2]
                        /\ \A k \in ij[1]..ij[2] : ~IsBracketChar(t[k])}}

ClosingBrackets == {None} \cup {Some(BracketAstNode(c, ")")) : c \in 1..MaxLen}

\* Trees over document t: a node of each variant on its own, a List over a
\* Text, and a Pair around nothing, a Text or a List over a Text; every
\* composite length is the sum of the parts.
IndentArenas(t) ==
    {<<AstNode("Bracket", BracketAstNode(l, "("))>> : l \in 1..MaxLen}
    \cup {<<AstNode("InvalidBracket", InvalidBracketAstNode(l, ")"))>> : l \in 1..MaxLen}
    \cup {<<x>> : x \in TextNodes(t)}
    \cup {<<AstNode("List", ListAstNode(0, 0, <<>>, <<>>))>>}
    \cup {<<x, AstNode("List", ListAstNode(x.node.length, 0, <<>>, <<1>>))>> :
            x \in TextNodes(t)}
    \cup {<<AstNode("Pair", PairAstNode(PairPartsLength(<<>>, BracketAstNode(o, "("), None, c),
                                        BracketAstNode(o, "("), None, c, <<>>))>> :
            o \in 1..MaxLen, c \in ClosingBrackets}
    \cup {<<x, AstNode("Pair", PairAstNode(PairPartsLength(<<x>>, BracketAstNode(o, "("), Some(1), c),
                                           BracketAstNode(o, "("), Some(1), c, <<>>))>> :
            x \in TextNodes(t), o \in 1..MaxLen, c \in ClosingBrackets}
    \cup {LET l == AstNode("List", ListAstNode(x.node.length, 0, <<>>, <<1>>))
          IN <<x, l, AstNode("Pair", PairAstNode(
                        PairPartsLength(<<x, l>>, BracketAstNode(o, "("), Some(2), c),
                        BracketAstNode(o, "("), Some(2), c, <<>>))>> :
            x \in TextNodes(t), o \in 1..MaxLen, c \in ClosingBrackets}

InitIndent ==
    /\ text \in Texts
    /\ arena \in IndentArenas(text)
    /\ call = NoCall

BracketFits(b, offset, t) ==
    /\ offset + b.length <= Len(t)
    /\ \A p \in (offset + 1)..(offset + b.length) : t[p] = b.bracket_type

RECURSIVE Fits(_, _, _, _), FitsAll(_, _, _, _)

\* The children lie one after the other from offset on.
FitsAll(ar, cs, offset, t) ==
    IF cs = <<>> THEN TRUE
    ELSE /\ Fits(ar, ar[Head(cs)], offset, t)
         /\ FitsAll(ar, Tail(cs), offset + ar[Head(cs)].node.length, t)

\* Node n is what document t holds at offset: brackets lie on their bracket
\* characters, a Text on its own content, the parts of a composite follow
\* one another.  In particular every range asked of get_text_range lies
\* inside the document.
Fits(ar, n, offset, t) ==
    /\ offset + n.node.length <= Len(t)
    /\ CASE n.tag \in {"Bracket", "InvalidBracket"} -> BracketFits(n.node, offset, t)
         [] n.tag = "Text" -> SubSeq(t, offset + 1, offset + n.node.length) = n.node.text
         [] n.tag = "List" -> FitsAll(ar, n.node.children, offset, t)
         [] n.tag = "Pair" ->
               LET inner == offset + n.node.opening_bracket.length
                   after == IF n.node.child = None THEN inner
                            ELSE inner + ar[n.node.child[1]].node.length
               IN /\ BracketFits(n.node.opening_bracket, offset, t)
                  /\ IF n.node.child = None THEN TRUE
                     ELSE Fits(ar, ar[n.node.child[1]], inner, t)
                  /\ IF n.node.closing_bracket = None THEN TRUE
                     ELSE BracketFits(n.node.closing_bracket[1], after, t)

CallComputeMinIndentation ==
    /\ \E a \in Root, offset \in 0..Len(text) :
          /\ Fits(arena, arena[a], offset, text)
          /\ call' = [op |-> "compute_min_indentation", node |-> a, arg |-> offset,
                      result |-> compute_min_indentation(arena, arena[a], offset, text)]
    /\ UNCHANGED <<arena, text>>

NextIndent == CallComputeMinIndentation

SpecIndent == InitIndent /\ [][NextIndent]_vars

(* ------------------------------ properties ----------------------------- *)

Receiver == arena[call.node]

IsLeaf(n) == n.tag \in {"Bracket", "InvalidBracket", "Text"}

MinOf(S) == CHOOSE m \in S : \A x \in S : m <= x

MaxOf(S) == CHOOSE m \in S : \A x \in S : x <= m

\* C1: for a Pair or a List, can_be_reused(S) is true exactly when every id
\* of the node's missing_opening_bracket_ids occurs in S.
C1_ReuseIffIdsOpen ==
    (call.op = "can_be_reused" /\ Receiver.tag \in {"Pair", "List"})
        => (call.result <=>
                Range(Receiver.node.missing_opening_bracket_ids) \subseteq Range(call.arg))

C1_Witness ==
    /\ call.op = "can_be_reused"
    /\ Receiver.tag = "Pair"
    /\ Len(Receiver.node.missing_opening_bracket_ids) = 2
    /\ Receiver.node.missing_opening_bracket_ids[1] # Receiver.node.missing_opening_bracket_ids[2]
    /\ Len(call.arg) = 1
    /\ call.result = FALSE

\* C2: a leaf has no missing ids and still can_be_reused(S) is false for
\* every S.
C2_LeafNeverReused ==
    (call.op = "can_be_reused" /\ IsLeaf(Receiver))
        => (call.result = FALSE /\ missing_opening_bracket_ids(Receiver) = <<>>)

C2_Witness ==
    /\ call.op = "can_be_reused"
    /\ Receiver.tag = "Text"
    /\ Range(call.arg) = 1..MaxId
    /\ call.result = FALSE

\* C3: every Pair and every List that was built has length() equal to the
\* sum of length() over its present children.
C3_LengthAdditive ==
    \A a \in Addrs :
        arena[a].tag \in {"Pair", "List"} =>
            LET cs == children(arena, arena[a])
            IN length(arena[a]) = Sum([i \in 1..Len(cs) |-> length(cs[i])])

\* C4: length() returns the length field of the node, whatever its variant.
C4_LengthIsOwnField ==
    call.op = "length" => call.result = Receiver.node.length

RECURSIVE Reach(_, _)

\* The addresses of the subtree at a: a itself, what a List owns, what a
\* Pair borrows.
Reach(ar, a) ==
    {a} \cup
    CASE ar[a].tag = "List" ->
            UNION {Reach(ar, ar[a].node.children[i]) : i \in 1..Len(ar[a].node.children)}
      [] ar[a].tag = "Pair" ->
            IF ar[a].node.child = None THEN {} ELSE Reach(ar, ar[a].node.child[1])
      [] OTHER -> {}

\* C5: the tree returned by deep_clone shares no node with its source.
C5_CloneSharesNothing ==
    call.op = "deep_clone" =>
        Reach(arena, call.result) \cap Reach(arena, call.node) = {}

\* C6: children_length is 3 for a Pair, the child count for a List and 0 for
\* a leaf; get_child always answers; slot 0 of a Pair is its opening bracket,
\* slots 1 and 2 are present exactly when the interior and the closing
\* bracket are; an index at or past children_length yields no child.
C6_ChildAccessTotal ==
    LET n == Receiver
        count == CASE n.tag = "Pair" -> 3
                   [] n.tag = "List" -> Len(n.node.children)
                   [] OTHER -> 0
    IN /\ call.op = "children_length" => call.result = count
       /\ call.op = "get_child" =>
             /\ Len(call.result) <= 1
             /\ call.arg >= count => call.result = None
             /\ (n.tag = "List" /\ call.arg < count) => call.result # None
             /\ (n.tag = "Pair" /\ call.arg = 0) =>
                   call.result = Some(AstNode("Bracket", n.node.opening_bracket))
             /\ (n.tag = "Pair" /\ call.arg = 1) =>
                   (call.result # None <=> n.node.child # None)
             /\ (n.tag = "Pair" /\ call.arg = 2) =>
                   (call.result # None <=> n.node.closing_bracket # None)

C6_Witness ==
    /\ call.op = "get_child"
    /\ Receiver.tag = "Pair"
    /\ Receiver.node.child = None
    /\ Receiver.node.closing_bracket # None
    /\ call.arg = 1
    /\ call.result = None

\* The offsets of the non-whitespace characters of the span [o, o + len),
\* each counted from the start of the span or from the last line break of
\* the span before it.
SpanColumns(t, o, len) ==
    {p - 1 - MaxOf({o} \cup {k \in (o + 1)..(p - 1) : t[k] = "\n"}) :
        p \in {q \in (o + 1)..(o + len) : ~is_whitespace(t[q])}}

\* C7: for a List at offset o the result is the least first-non-whitespace
\* index over the lines of the text of [o, o + length), blank lines
\* contributing nothing, and the sentinel when no line has content; on the
\* span "  a\n b\n   c" it is 1.
C7_ListScansItsSpan ==
    (call.op = "compute_min_indentation" /\ Receiver.tag = "List") =>
        LET cols == SpanColumns(text, call.arg, Receiver.node.length)
        IN /\ call.result = (IF cols = {} THEN UsizeMax ELSE MinOf(cols))
           /\ (text = ExampleText /\ call.arg = 0 /\ Receiver.node.length = Len(text))
                 => call.result = 1

C7_Witness ==
    /\ call.op = "compute_min_indentation"
    /\ Receiver.tag = "List"
    /\ Receiver.node.children # <<>>
    /\ text = ExampleText
    /\ call.arg = 0
    /\ Receiver.node.length = Len(text)
    /\ call.result = 1

\* The leading-whitespace column of the document line holding position p,
\* or the sentinel when that line has no content.
LineIndentation(t, p) ==
    LET start == MinOf({j \in 1..p : \A k \in j..(p - 1) : t[k] # "\n"})
        stop == MinOf({j \in p..(Len(t) + 1) : j = Len(t) + 1 \/ t[j] = "\n"})
        content == {q \in start..(stop - 1) : ~is_whitespace(t[q])}
    IN IF content = {} THEN UsizeMax ELSE MinOf(content) - start

\* C8: for a node of any variant at offset o the result is the least
\* leading-whitespace column over the document lines the node spans, and
\* the sentinel only when none of those lines has content.
C8_MinOverSpannedLines ==
    (call.op = "compute_min_indentation" /\ length(Receiver) > 0) =>
        call.result =
            MinOf({LineIndentation(text, p) :
                     p \in (call.arg + 1)..(call.arg + length(Receiver))})

\* C9: a List of non-List children reports height 0, a List of two or more
\* Lists of one height h reports h + 1, and any other node reports 0.
C9_HeightFollowsChildren ==
    call.op = "list_height" =>
        LET n == Receiver
            cs == children(arena, n)
        IN /\ n.tag # "List" => call.result = 0
           /\ (n.tag = "List" /\ \A i \in 1..Len(cs) : cs[i].tag # "List")
                 => call.result = 0
           /\ (/\ n.tag = "List"
               /\ Len(cs) >= 2
               /\ \A i \in 1..Len(cs) :
                     cs[i].tag = "List" /\ cs[i].node.list_height = cs[1].node.list_height)
                 => call.result = cs[1].node.list_height + 1

\* C9 as amended: a List reports the list_height field it was built with,
\* whatever its children are, and any other node reports 0.
C9_HeightIsStoredField ==
    call.op = "list_height" =>
        call.result = (IF Receiver.tag = "List" THEN Receiver.node.list_height ELSE 0)

C9_Witness ==
    /\ call.op = "list_height"
    /\ Receiver.tag = "List"
    /\ Receiver.node.children # <<>>
    /\ \A i \in 1..Len(Receiver.node.children) :
          arena[Receiver.node.children[i]].tag # "List"
    /\ Receiver.node.list_height = 1
    /\ call.result = 1

RECURSIVE PresentChildren(_, _, _)

\* get_child(0), ..., get_child(k - 1) with the absent slots left out.
PresentChildren(ar, n, k) ==
    IF k = 0 THEN <<>>
    ELSE PresentChildren(ar, n, k - 1) \o get_child(ar, n, k - 1)

\* C10: children() is the sequence of the present get_child(i), i below
\* children_length(), in order: as many as children_length() for a List,
\* none for a leaf, and for a Pair the opening bracket, the interior if
\* present and the closing bracket if present, so that the closing bracket
\* comes second when there is no interior.
C10_ChildrenArePresentSlots ==
    call.op = "children" =>
        LET n == Receiver IN
        /\ call.result = PresentChildren(arena, n, children_length(n))
        /\ n.tag = "List" => Len(call.result) = children_length(n)
        /\ IsLeaf(n) => call.result = <<>>
        /\ n.tag = "Pair" =>
              /\ Len(call.result) = 1 + Len(n.node.child) + Len(n.node.closing_bracket)
              /\ (n.node.child = None /\ n.node.closing_bracket # None) =>
                    call.result[2] = AstNode("Bracket", n.node.closing_bracket[1])

C10_Witness ==
    /\ call.op = "children"
    /\ Receiver.tag = "Pair"
    /\ Receiver.node.child = None
    /\ Receiver.node.closing_bracket # None
    /\ Len(call.result) = 2
    /\ children_length(Receiver) = 3

====
